---- MODULE Spec2Model ----
(***************************************************************************)
(* The four neuralnyx assistants (business-query-generator,                *)
(* content-generator, content-optimization, domain-analyzer).  Each is a   *)
(* module holding one agent object, a coroutine main() that renders a      *)
(* prompt and awaits the external agent, and the entrypoint                *)
(* agent_invocation(payload, context) that adapts the payload, awaits      *)
(* main() and wraps the outcome in an envelope.                            *)
(***************************************************************************)
EXTENDS Integers, Sequences, FiniteSets, TLC

(***************************************************************************)
(* Bounds of the model.                                                    *)
(***************************************************************************)
NumInv == 2
MaxTopics == 2

(***************************************************************************)
(* Python values, tagged by their type.                                    *)
(***************************************************************************)
PyStr(s) == [t |-> "str", s |-> s]
PyInt(n) == [t |-> "int", n |-> n]
PyNone == [t |-> "NoneType"]
PyList(l) == [t |-> "list", l |-> l]
PyDict(d) == [t |-> "dict", d |-> d]
PyModel(cls, d) == [t |-> "model", cls |-> cls, d |-> d]

\* Marks a key the payload does not hold, and a local not yet assigned.
Absent == [t |-> "absent"]

\* The outcome of evaluating an expression: a value, or a raised exception.
Ok(v) == [exc |-> "none", val |-> v]
Raise(e) == [exc |-> e, val |-> Absent]

\* dict.get(key, default) on the items d of a dict
Get(d, key, default) == IF key \in DOMAIN d THEN d[key] ELSE default

\* The dict literal holding the given items, without the absent ones.
MkDict(c) == PyDict([k \in {x \in DOMAIN c : c[x] # Absent} |-> c[k]])

(***************************************************************************)
(* Strings: str.lower(), the operator `in' on str, str(), repr(),          *)
(* str.join().                                                             *)
(***************************************************************************)
CharAt(s, i) == SubSeq(s, i, i)

LowerChar(c) ==
  CASE c = "A" -> "a" [] c = "B" -> "b" [] c = "C" -> "c" [] c = "D" -> "d"
    [] c = "E" -> "e" [] c = "F" -> "f" [] c = "G" -> "g" [] c = "H" -> "h"
    [] c = "I" -> "i" [] c = "J" -> "j" [] c = "K" -> "k" [] c = "L" -> "l"
    [] c = "M" -> "m" [] c = "N" -> "n" [] c = "O" -> "o" [] c = "P" -> "p"
    [] c = "Q" -> "q" [] c = "R" -> "r" [] c = "S" -> "s" [] c = "T" -> "t"
    [] c = "U" -> "u" [] c = "V" -> "v" [] c = "W" -> "w" [] c = "X" -> "x"
    [] c = "Y" -> "y" [] c = "Z" -> "z" [] OTHER -> c

RECURSIVE Lower(_)
Lower(s) == IF Len(s) = 0 THEN ""
            ELSE LowerChar(CharAt(s, 1)) \o Lower(SubSeq(s, 2, Len(s)))

\* sub in s
Contains(s, sub) ==
  \E i \in 1..(Len(s) - Len(sub) + 1) : SubSeq(s, i, i + Len(sub) - 1) = sub

Digit(n) == CharAt("0123456789", n + 1)

RECURSIVE IntToStr(_)
IntToStr(n) == IF n < 0 THEN "-" \o IntToStr(0 - n)
               ELSE IF n < 10 THEN Digit(n)
               ELSE IntToStr(n \div 10) \o Digit(n % 10)

\* repr() of a value that is not a container
ReprScalar(v) ==
  CASE v.t = "str" -> "'" \o v.s \o "'"
    [] v.t = "int" -> IntToStr(v.n)
    [] v.t = "NoneType" -> "None"

RECURSIVE ReprItems(_)
ReprItems(l) == IF Len(l) = 0 THEN ""
                ELSE IF Len(l) = 1 THEN ReprScalar(l[1])
                ELSE ReprScalar(l[1]) \o ", " \o ReprItems(Tail(l))

\* str(v), as a replacement field {v} of an f-string renders it
Str(v) ==
  CASE v.t = "str" -> v.s
    [] v.t = "int" -> IntToStr(v.n)
    [] v.t = "NoneType" -> "None"
    [] v.t = "list" -> "[" \o ReprItems(v.l) \o "]"

\* The items iterating over v yields: the elements of a list, the
\* characters of a str.
RECURSIVE Chars(_)
Chars(s) == IF Len(s) = 0 THEN <<>>
            ELSE <<PyStr(CharAt(s, 1))>> \o Chars(SubSeq(s, 2, Len(s)))

Items(v) == IF v.t = "list" THEN v.l ELSE Chars(v.s)

RECURSIVE JoinItems(_, _)
JoinItems(sep, l) == IF Len(l) = 0 THEN ""
                     ELSE IF Len(l) = 1 THEN l[1].s
                     ELSE l[1].s \o sep \o JoinItems(sep, Tail(l))

\* Join, converting every item with str() and taking a non-iterable as empty.
RECURSIVE JoinStrOfItems(_, _)
JoinStrOfItems(sep, l) == IF Len(l) = 0 THEN ""
                          ELSE IF Len(l) = 1 THEN Str(l[1])
                          ELSE Str(l[1]) \o sep \o JoinStrOfItems(sep, Tail(l))

JoinCoerces(sep, v) ==
  IF v.t = "list" THEN Ok(PyStr(JoinStrOfItems(sep, v.l)))
  ELSE IF v.t = "str" THEN Ok(PyStr(JoinStrOfItems(sep, Chars(v.s))))
  ELSE Ok(PyStr(""))

\* sep.join(v): TypeError when v is not iterable or holds a non-str item
Join(sep, v) ==
  IF v.t \notin {"list", "str"} THEN Raise("TypeError")
  ELSE IF \E i \in 1..Len(Items(v)) : Items(v)[i].t # "str"
       THEN Raise("TypeError")
       ELSE Ok(PyStr(JoinItems(sep, Items(v))))

(***************************************************************************)
(* The four assistants, one module each.                                   *)
(***************************************************************************)
QG == "business-query-generator"
CG == "content-generator"
CO == "content-optimization"
DA == "domain-analyzer"

Assistants == {QG, CG, CO, DA}

\* The module-level agent object (its instructions text is a constant of
\* the module and is left out).
Agent(a) ==
  CASE a = QG -> [name |-> "BusinessQueryGenerator", tools |-> <<"WebSearchTool">>,
                  output_type |-> "UserQueriesOutput"]
    [] a = CG -> [name |-> "ContentGenerator", tools |-> <<"WebSearchTool">>,
                  output_type |-> "ContentOutput"]
    [] a = CO -> [name |-> "ContentOptimizationAgent", tools |-> <<"WebSearchTool">>,
                  output_type |-> "OptimizedContentOutput"]
    [] a = DA -> [name |-> "DomainAnalysisAgent", tools |-> <<"WebSearchTool">>,
                  output_type |-> "BusinessSummaryOutput"]

\* The response schemas: field name -> declared type.
UserQueriesOutput == [queries |-> "List[str]"]
ContentOutput == [content |-> "List[str]", platform |-> "str",
                  topics_covered |-> "List[str]", content_type |-> "str"]
OptimizedContentOutput == [content |-> "str"]
BusinessSummaryOutput == [summary |-> "str", business_type |-> "str",
                          target_audience |-> "str", key_services |-> "List[str]",
                          industry |-> "str"]

Schema(cls) ==
  CASE cls = "UserQueriesOutput" -> UserQueriesOutput
    [] cls = "ContentOutput" -> ContentOutput
    [] cls = "OptimizedContentOutput" -> OptimizedContentOutput
    [] cls = "BusinessSummaryOutput" -> BusinessSummaryOutput

(***************************************************************************)
(* Request adaptation: the head of agent_invocation, before its try.       *)
(***************************************************************************)
\* business-query-generator: business_data = {...payload.get(...)...}
QG_business_data(payload) ==
  IF payload.t # "dict" THEN Raise("AttributeError")
  ELSE Ok(PyDict([summary |-> Get(payload.d, "summary", PyStr("")),
                  goals |-> Get(payload.d, "goals", PyStr("")),
                  existingKeywords |-> Get(payload.d, "existingKeywords", PyStr("")),
                  domain |-> Get(payload.d, "domain", PyStr("example.com"))]))

\* content-generator: the topics sniffed from the prompt text
CG_topics(low) ==
  IF Contains(low, "ai") \/ Contains(low, "artificial intelligence")
  THEN PyList(<<PyStr("artificial intelligence")>>)
  ELSE IF Contains(low, "sustainable") \/ Contains(low, "green")
       THEN PyList(<<PyStr("sustainable technology")>>)
       ELSE PyList(<<PyStr("technology"), PyStr("innovation")>>)

\* content-generator: content_data
CG_content_data(payload) ==
  IF payload.t = "dict"
  THEN IF "topics" \in DOMAIN payload.d /\ "platform" \in DOMAIN payload.d
       THEN Ok(PyDict([topics |-> Get(payload.d, "topics", PyList(<<>>)),
                       platform |-> Get(payload.d, "platform", PyStr("reddit"))]))
       ELSE LET prompt == Get(payload.d, "prompt",
                              Get(payload.d, "domain", PyStr("technology")))
            IN  IF prompt.t # "str" THEN Raise("AttributeError")
                ELSE Ok(PyDict([topics |-> CG_topics(Lower(prompt.s)),
                                platform |-> PyStr("reddit")]))
  ELSE Ok(PyDict([topics |-> PyList(<<PyStr("technology"), PyStr("innovation")>>),
                  platform |-> PyStr("reddit")]))

\* content-optimization: content_data
CO_content_data(payload) ==
  IF payload.t # "dict" THEN Raise("AttributeError")
  ELSE Ok(PyDict([content |-> Get(payload.d, "content", PyStr("")),
                  title |-> Get(payload.d, "title", PyStr("")),
                  meta |-> Get(payload.d, "meta", PyStr("")),
                  topics |-> Get(payload.d, "topics", PyList(<<>>))]))

\* DA_domain, with the prompt key looked up before the domain key.
DA_domainPromptFirst(payload) ==
  IF payload.t # "dict" THEN Raise("AttributeError")
  ELSE Ok(Get(payload.d, "prompt", Get(payload.d, "domain", PyStr("example.com"))))

\* domain-analyzer: domain
DA_domain(payload) ==
  IF payload.t # "dict" THEN Raise("AttributeError")
  ELSE Ok(Get(payload.d, "domain", Get(payload.d, "prompt", PyStr("example.com"))))

Adapt(a, payload) ==
  CASE a = QG -> QG_business_data(payload)
    [] a = CG -> CG_content_data(payload)
    [] a = CO -> CO_content_data(payload)
    [] a = DA -> DA_domain(payload)

(***************************************************************************)
(* main(): the default of a None argument, then the prompt text (query).   *)
(***************************************************************************)
QG_default == PyDict([summary |-> PyStr("A sample business that provides services"),
                      goals |-> PyStr("Appear in ChatGPT/LLM results for relevant searches"),
                      existingKeywords |-> PyStr("business services, consulting"),
                      domain |-> PyStr("example.com")])
CG_default == PyDict([topics |-> PyList(<<PyStr("artificial intelligence"),
                                          PyStr("sustainable technology")>>),
                      platform |-> PyStr("reddit")])
CO_default == PyDict([content |-> PyStr("Sample blog content to optimize"),
                      title |-> PyStr("Sample Title"),
                      meta |-> PyStr("Sample meta description"),
                      topics |-> PyList(<<PyStr("sample"), PyStr("topic")>>)])
DA_default == PyStr("example.com")

\* if arg is None: arg = <default>
MainArg(a, arg) ==
  IF arg.t # "NoneType" THEN arg
  ELSE CASE a = QG -> QG_default [] a = CG -> CG_default
         [] a = CO -> CO_default [] a = DA -> DA_default

QG_query(business_data) ==
  Ok(PyStr("BUSINESS SUMMARY: " \o Str(Get(business_data.d, "summary", PyStr("")))
     \o "\n\nGOALS: " \o Str(Get(business_data.d, "goals", PyStr("")))
     \o "\n\nEXISTING KEYWORDS: " \o Str(Get(business_data.d, "existingKeywords", PyStr("")))
     \o "\n\nDOMAIN: " \o Str(Get(business_data.d, "domain", PyStr("")))
     \o "\n\nPlease generate 10 new user queries that would help this business appear in LLM search results."))

CG_query(content_data) ==
  LET topics == Get(content_data.d, "topics", PyList(<<>>))
      platform == Get(content_data.d, "platform", PyStr("reddit"))
  IN  Ok(PyStr("TOPICS: " \o Str(topics)
         \o "\n\nPLATFORM: " \o Str(platform)
         \o "\n\nPlease generate engaging, platform-optimized content for the provided topics. Make sure the content is:"
         \o "\n- Appropriate for the " \o Str(platform) \o " platform"
         \o "\n- Engaging and shareable"
         \o "\n- Relevant to the topics provided"
         \o "\n- Ready to publish"
         \o "\n\nGenerate 2-3 pieces of content for the topics, optimized for " \o Str(platform) \o "."))

CO_query(content_data) ==
  LET topics == Join(", ", Get(content_data.d, "topics", PyList(<<>>)))
  IN  IF topics.exc # "none" THEN Raise(topics.exc)
      ELSE Ok(PyStr("Please optimize the following blog post content:"
         \o "\n\nTITLE: " \o Str(Get(content_data.d, "title", PyStr("")))
         \o "\nMETA DESCRIPTION: " \o Str(Get(content_data.d, "meta", PyStr("")))
         \o "\nTOPICS: " \o topics.val.s
         \o "\n\nCONTENT TO OPTIMIZE:\n" \o Str(Get(content_data.d, "content", PyStr("")))
         \o "\n\nPlease optimize this content for better readability, engagement, and SEO while maintaining the original message and tone. Focus on improving structure, flow, and incorporating the provided topics naturally throughout the content."
         \o "\n\nIMPORTANT: Return the optimized content in MARKDOWN format with proper headings (# ## ###), emphasis (**bold**, *italic*), lists, and other markdown elements for better structure and readability."
         \o "\n\nIf you need additional information about any of the topics or want to ensure you're using the most current and accurate information, feel free to use web search to research the topics and enhance the content accordingly."))

DA_query(domain) ==
  Ok(PyStr("Please analyze the domain: " \o Str(domain)
     \o "\n\nUse web search to research this domain thoroughly and provide a comprehensive business analysis including:"
     \o "\n- What the business does and its main services/products"
     \o "\n- The business type and industry"
     \o "\n- Target audience"
     \o "\n- Key services offered"
     \o "\n\nBe thorough in your research and provide accurate information based on what you find."))

\* Query, with the DOMAIN section of the query-generation prompt and the
\* TOPICS line of the others left out.
QueryDropsField(a, arg) ==
  CASE a = QG ->
         Ok(PyStr("BUSINESS SUMMARY: " \o Str(Get(arg.d, "summary", PyStr("")))
            \o "\n\nGOALS: " \o Str(Get(arg.d, "goals", PyStr("")))
            \o "\n\nEXISTING KEYWORDS: " \o Str(Get(arg.d, "existingKeywords", PyStr("")))
            \o "\n\nPlease generate 10 new user queries that would help this business appear in LLM search results."))
    [] a = CG -> CG_query(PyDict([topics |-> PyList(<<>>), platform |-> arg.d.platform]))
    [] a = CO -> CO_query(PyDict([topics |-> PyList(<<>>), content |-> arg.d.content,
                                  title |-> arg.d.title, meta |-> arg.d.meta]))
    [] a = DA -> DA_query(PyStr(""))

\* The query main() builds from its (defaulted) argument.
Query(a, arg) ==
  CASE a = QG -> QG_query(arg)
    [] a = CG -> CG_query(arg)
    [] a = CO -> CO_query(arg)
    [] a = DA -> DA_query(arg)

(***************************************************************************)
(* The tail of main() and of agent_invocation: what is returned.           *)
(***************************************************************************)
\* BaseModel.model_dump()
model_dump(m) == PyDict(m.d)

\* MainReturn, returning the whole output object for every assistant.
MainReturnWholeObject(a, final_output) == final_output

\* main(): return result.final_output (content-optimization: .content)
MainReturn(a, final_output) ==
  IF a = CO THEN final_output.d.content ELSE final_output

\* Wrap, with a status key added to the envelope.
WrapWithStatus(a, result) ==
  IF a # CO /\ result.t = "model"
  THEN Ok(PyDict([result |-> model_dump(result), status |-> PyStr("ok")]))
  ELSE Ok(PyDict([result |-> result, status |-> PyStr("ok")]))

\* agent_invocation: the return of its try block
Wrap(a, result) ==
  IF a # CO /\ result.t = "model"
  THEN Ok(PyDict([result |-> model_dump(result)]))
  ELSE Ok(PyDict([result |-> result]))

\* The static envelope of each assistant's except clause.
Fallback(a) ==
  CASE a = QG -> PyDict([result |-> PyDict([queries |->
         PyList(<<PyStr("error"), PyStr("occurred"), PyStr("during"),
                  PyStr("execution"), PyStr("check"), PyStr("logs"), PyStr("for"),
                  PyStr("details"), PyStr("about"), PyStr("failure")>>)])])
    [] a = CG -> PyDict([result |-> PyDict([
         content |-> PyList(<<PyStr("Error occurred during content generation")>>),
         platform |-> PyStr("unknown"),
         topics_covered |-> PyList(<<>>),
         content_type |-> PyStr("error")])])
    [] a = CO -> PyDict([result |->
         PyStr("Error occurred during content optimization. Please try again.")])
    [] a = DA -> PyDict([result |-> PyDict([
         summary |-> PyStr("Error occurred during domain analysis"),
         business_type |-> PyStr("Unknown"),
         target_audience |-> PyStr("Unknown"),
         key_services |-> PyList(<<PyStr("Error")>>),
         industry |-> PyStr("Unknown")])])

\* ExceptHandler, re-raising as main's handler does.
ExceptHandlerReraises(a, e) == Raise(e)

\* ExceptHandler, reporting the exception under an error key.
ExceptHandlerErrorKey(a, e) == Ok(PyDict([error |-> PyStr(e)]))

\* agent_invocation: except Exception as e: ... return <fallback>
ExceptHandler(a, e) == Ok(Fallback(a))

\* agent_invocation(payload, context) run from entry to return, given the
\* outcome of its agent call.
agent_invocation(a, payload, outcome) ==
  LET r == Adapt(a, payload)
  IN  IF r.exc # "none" THEN r
      ELSE LET q == Query(a, MainArg(a, r.val))
           IN  IF q.exc # "none" THEN ExceptHandler(a, q.exc)
               ELSE IF outcome.exc # "none" THEN ExceptHandler(a, outcome.exc)
               ELSE Wrap(a, MainReturn(a, outcome.val))

(***************************************************************************)
(* Inputs: the payloads the hosting runtime delivers and the outcomes of   *)
(* the external agent run.                                                 *)
(***************************************************************************)
SeqsUpTo(S, n) == UNION {[1..k -> S] : k \in 0..n}

TopicSamples == {PyStr("seo"), PyStr("solar")}
TopicLists == {PyList(l) : l \in SeqsUpTo(TopicSamples, MaxTopics)}

NonDictPayloads == {PyStr("hello"), PyNone, PyList(<<>>)}

QG_payloads ==
  {MkDict([summary |-> s, goals |-> g, existingKeywords |-> k, domain |-> d]) :
     s \in {Absent, PyStr("CRM for vets")},
     g \in {Absent, PyStr("rank in answers")},
     k \in {Absent, PyStr("vet crm"), PyInt(42)},
     d \in {Absent, PyStr("acme.io"), PyNone}}

CG_payloads ==
  {MkDict([topics |-> tp, platform |-> pl, prompt |-> pr, domain |-> d]) :
     tp \in {Absent} \cup TopicLists,
     pl \in {Absent, PyStr("twitter")},
     pr \in {Absent, PyStr("Artificial Intelligence news"), PyStr("sustainable energy"),
             PyStr("green roofs"), PyStr("email tips"), PyStr("cooking"),
             PyInt(42), PyNone},
     d \in {Absent, PyStr("acme.io")}}

CO_payloads ==
  {MkDict([content |-> c, title |-> ti, meta |-> m, topics |-> tp]) :
     c \in {Absent, PyStr("Old post body")},
     ti \in {Absent, PyStr("Vet tips")},
     m \in {Absent, PyStr("All about vets")},
     tp \in {Absent, PyStr("seo"), PyNone, PyList(<<PyStr("seo"), PyInt(7)>>)}
            \cup TopicLists}

DA_payloads ==
  {MkDict([domain |-> d, prompt |-> pr]) :
     d \in {Absent, PyStr("acme.io"), PyStr("example.com"), PyNone},
     pr \in {Absent, PyStr("shop.example"), PyInt(42), PyNone}}

Payloads(a) ==
  NonDictPayloads \cup
  CASE a = QG -> QG_payloads
    [] a = CG -> CG_payloads
    [] a = CO -> CO_payloads
    [] a = DA -> DA_payloads

\* The payloads of the concurrent invocations (one set for every assistant:
\* the payload's shape is not under the assistant's control).
ConcPayloads ==
  {PyStr("hello"),
   MkDict([domain |-> PyStr("acme.io")]),
   MkDict([prompt |-> PyStr("green roofs"), title |-> PyStr("Vet tips"),
           summary |-> PyStr("CRM for vets")]),
   MkDict([topics |-> PyList(<<PyStr("seo")>>), platform |-> PyStr("twitter"),
           content |-> PyStr("Old post body")])}

\* Runner.run(agent, query) returns a run result whose final_output is an
\* instance of the agent's output_type.
QG_outputs ==
  {PyModel("UserQueriesOutput", [queries |-> PyList(q)]) :
     q \in {<<PyStr("best crm for vets")>>,
            <<PyStr("vet crm vs paper"), PyStr("crm for clinics")>>}}

CG_outputs ==
  {PyModel("ContentOutput",
     [content |-> PyList(<<PyStr("Post about seo")>>),
      platform |-> PyStr(p),
      topics_covered |-> PyList(<<PyStr("seo")>>),
      content_type |-> PyStr(p \o "_posts")]) : p \in {"reddit", "twitter"}}

CO_outputs ==
  {PyModel("OptimizedContentOutput", [content |-> PyStr(c)]) :
     c \in {"# Vet tips\n\nBetter body", "## Intro"}}

DA_outputs ==
  {PyModel("BusinessSummaryOutput",
     [summary |-> PyStr("Acme sells anvils."),
      business_type |-> PyStr(b),
      target_audience |-> PyStr("Coyotes"),
      key_services |-> PyList(<<PyStr("anvils"), PyStr("rockets")>>),
      industry |-> PyStr("Retail")]) : b \in {"E-commerce Store", "SaaS Platform"}}

AgentOutputs(a) ==
  CASE a = QG -> QG_outputs
    [] a = CG -> CG_outputs
    [] a = CO -> CO_outputs
    [] a = DA -> DA_outputs

\* Runner.run raises: the run failed, or its output did not validate
\* against output_type.
AgentFailures == {"AgentsException", "ModelBehaviorError"}

(***************************************************************************)
(* State.                                                                  *)
(***************************************************************************)
VARIABLES
  assistant,   \* the module that is deployed
  agent,       \* its module-level agent object
  inv          \* the invocations of agent_invocation, by slot

vars == <<assistant, agent, inv>>

Invocations == 1..NumInv

NotReturned == [exc |-> "none", val |-> Absent]

\* A slot with no invocation in it.
Idle == [pc |-> "idle", payload |-> Absent, request |-> Absent, query |-> Absent,
         calls |-> 0, outcome |-> NotReturned, ret |-> NotReturned]

Init ==
  /\ assistant \in Assistants
  /\ agent = Agent(assistant)
  /\ inv = [i \in Invocations |-> Idle]

\* LocalRequest, with the request kept in a module-level variable that the
\* first slot's invocation writes.
SharedRequest(i) == IF inv[1].request # Absent THEN inv[1].request ELSE inv[i].request

\* The local variable holding the adapted request of invocation i.
LocalRequest(i) == inv[i].request

\* The hosting runtime calls agent_invocation(payload, context).
Receive(i, P) ==
  /\ inv[i].pc = "idle"
  /\ \E p \in P : inv' = [inv EXCEPT ![i] = [Idle EXCEPT !.pc = "entry", !.payload = p]]
  /\ UNCHANGED <<assistant, agent>>

\* agent_invocation up to its try: the request is adapted; an exception
\* here propagates to the caller.
AdaptRequest(i) ==
  /\ inv[i].pc = "entry"
  /\ LET r == Adapt(assistant, inv[i].payload)
     IN  inv' = [inv EXCEPT ![i] =
                   IF r.exc # "none"
                   THEN [@ EXCEPT !.pc = "raised", !.ret = r]
                   ELSE [@ EXCEPT !.pc = "main", !.request = r.val]]
  /\ UNCHANGED <<assistant, agent>>

\* main() up to its await: the query is built and Runner.run is called; an
\* exception while building it is caught by agent_invocation.
SynthesizePrompt(i) ==
  /\ inv[i].pc = "main"
  /\ LET q == Query(assistant, MainArg(assistant, LocalRequest(i)))
     IN  inv' = [inv EXCEPT ![i] =
                   IF q.exc # "none"
                   THEN [@ EXCEPT !.pc = "done", !.ret = ExceptHandler(assistant, q.exc)]
                   ELSE [@ EXCEPT !.pc = "await", !.query = q.val,
                                  !.calls = @ + 1]]
  /\ UNCHANGED <<assistant, agent>>

\* Runner.run returns; main returns the output and agent_invocation wraps it.
AgentReturns(i) ==
  /\ inv[i].pc = "await"
  /\ \E out \in AgentOutputs(assistant) :
       inv' = [inv EXCEPT ![i] =
                 [@ EXCEPT !.pc = "done", !.outcome = Ok(out),
                           !.ret = Wrap(assistant, MainReturn(assistant, out))]]
  /\ UNCHANGED <<assistant, agent>>

\* AgentRaises, with one retry of Runner.run before the fallback.
AgentRaisesRetries(i) ==
  /\ inv[i].pc = "await"
  /\ \E e \in AgentFailures :
       inv' = [inv EXCEPT ![i] =
                 IF @.calls < 2
                 THEN [@ EXCEPT !.calls = @ + 1]
                 ELSE [@ EXCEPT !.pc = "done", !.outcome = Raise(e),
                                !.ret = ExceptHandler(assistant, e)]]
  /\ UNCHANGED <<assistant, agent>>

\* Runner.run raises; main logs and re-raises; agent_invocation catches.
AgentRaises(i) ==
  /\ inv[i].pc = "await"
  /\ \E e \in AgentFailures :
       inv' = [inv EXCEPT ![i] =
                 [@ EXCEPT !.pc = "done", !.outcome = Raise(e),
                           !.ret = ExceptHandler(assistant, e)]]
  /\ UNCHANGED <<assistant, agent>>

\* The caller has the envelope (or the exception); nothing of the
\* invocation is kept.
Deliver(i) ==
  /\ inv[i].pc \in {"done", "raised"}
  /\ inv' = [inv EXCEPT ![i] = Idle]
  /\ UNCHANGED <<assistant, agent>>

\* One invocation at a time.
Next ==
  \/ Receive(1, Payloads(assistant))
  \/ AdaptRequest(1)
  \/ SynthesizePrompt(1)
  \/ AgentReturns(1)
  \/ AgentRaises(1)
  \/ Deliver(1)

Spec == Init /\ [][Next]_vars

\* Concurrent invocations of the same assistant.
NextConc ==
  \E i \in Invocations :
    \/ Receive(i, ConcPayloads)
    \/ AdaptRequest(i)
    \/ SynthesizePrompt(i)
    \/ AgentReturns(i)
    \/ AgentRaises(i)
    \/ Deliver(i)

SpecConc == Init /\ [][NextConc]_vars

TypeOK ==
  /\ assistant \in Assistants
  /\ \A i \in Invocations :
       inv[i].pc \in {"idle", "entry", "main", "await", "done", "raised"}

(***************************************************************************)
(* Properties.                                                             *)
(***************************************************************************)
\* agent_invocation has returned an envelope / its agent call succeeded /
\* its agent call failed.
Returned(i) == inv[i].pc = "done"
AgentSucceeded(i) == Returned(i) /\ inv[i].outcome.val # Absent
AgentFailed(i) == Returned(i) /\ inv[i].outcome.exc # "none"

\* The request has been adapted from a mapping payload.
Adapted(i) == inv[i].pc \in {"main", "await", "done"} /\ inv[i].payload.t = "dict"

\* C1: for every assistant and every payload, also one that is not a
\* mapping, agent_invocation never raises to its caller.
C1_NeverRaises == \A i \in Invocations : inv[i].pc # "raised"

\* C2: whenever the agent call fails, agent_invocation returns exactly the
\* assistant's static fallback envelope, whatever the payload; for domain
\* analysis with payload {"domain": "example.com"} it is the envelope with
\* the "Unknown" record.
C2_FailureGivesFallback ==
  \A i \in Invocations :
    AgentFailed(i) =>
      /\ inv[i].ret = Ok(Fallback(assistant))
      /\ (assistant = DA /\ inv[i].payload = MkDict([domain |-> PyStr("example.com")]))
           => inv[i].ret.val.d.result.d =
                [summary |-> PyStr("Error occurred during domain analysis"),
                 business_type |-> PyStr("Unknown"),
                 target_audience |-> PyStr("Unknown"),
                 key_services |-> PyList(<<PyStr("Error")>>),
                 industry |-> PyStr("Unknown")]

C2_Witness ==
  \E i \in Invocations :
    /\ AgentFailed(i)
    /\ assistant = DA
    /\ inv[i].payload = MkDict([domain |-> PyStr("example.com")])

\* C3 as stated: whenever the agent call succeeds with a value v of the
\* response shape, every assistant returns {result: v} with the fields of v
\* unchanged.
C3_SuccessWrapsWholeValue ==
  \A i \in Invocations :
    AgentSucceeded(i) =>
      inv[i].ret = Ok(PyDict([result |-> PyDict(inv[i].outcome.val.d)]))

\* C3 as amended: query generation, content generation and domain analysis
\* return {result: v} with the fields of v unchanged; content optimization
\* returns {result: v.content}, the content string alone.
C3_SuccessEnvelope ==
  \A i \in Invocations :
    AgentSucceeded(i) =>
      IF assistant = CO
      THEN inv[i].ret = Ok(PyDict([result |-> inv[i].outcome.val.d.content]))
      ELSE inv[i].ret = Ok(PyDict([result |-> PyDict(inv[i].outcome.val.d)]))

C3_Witness ==
  \E i \in Invocations :
    /\ AgentSucceeded(i)
    /\ assistant = CO
    /\ inv[i].outcome.val.d.content = PyStr("# Vet tips\n\nBetter body")

\* The value v has the declared type ty / the shape of the schema.
HasType(v, ty) ==
  IF ty = "str" THEN v.t = "str"
  ELSE v.t = "list" /\ \A k \in 1..Len(v.l) : v.l[k].t = "str"

Conforms(schema, v) ==
  /\ v.t = "dict"
  /\ DOMAIN v.d = DOMAIN schema
  /\ \A f \in DOMAIN schema : HasType(v.d[f], schema[f])

SingleKeyResult(ret) ==
  /\ ret.exc = "none"
  /\ ret.val.t = "dict"
  /\ DOMAIN ret.val.d = {"result"}

\* C4 as stated: every envelope returned, on success and on fallback alike,
\* is a mapping with the single key result whose value has the shape of the
\* assistant's response schema.
C4_EnvelopeHasSchemaShape ==
  \A i \in Invocations :
    Returned(i) =>
      /\ SingleKeyResult(inv[i].ret)
      /\ Conforms(Schema(agent.output_type), inv[i].ret.val.d.result)

\* C4 as amended: every envelope returned is a mapping with the single key
\* result; its value has the shape of the response schema for query
\* generation, content generation and domain analysis, and is a bare string
\* (the type of OptimizedContentOutput.content) for content optimization.
C4_EnvelopeShape ==
  \A i \in Invocations :
    Returned(i) =>
      /\ SingleKeyResult(inv[i].ret)
      /\ IF assistant = CO
         THEN HasType(inv[i].ret.val.d.result, OptimizedContentOutput.content)
         ELSE Conforms(Schema(agent.output_type), inv[i].ret.val.d.result)

C4_Witness ==
  \E i \in Invocations :
    /\ AgentFailed(i)
    /\ assistant = CO

\* The free text the content-generation adapter sniffs.
SniffedText(payload) ==
  Get(payload.d, "prompt", Get(payload.d, "domain", PyStr("technology")))

ViaFreeText(i) ==
  /\ assistant = CG
  /\ Adapted(i)
  /\ ~("topics" \in DOMAIN inv[i].payload.d /\ "platform" \in DOMAIN inv[i].payload.d)

\* C5: in content generation, for a payload handled through the free-text
\* field, a text containing "artificial intelligence" (any case) gives
\* topics ["artificial intelligence"], a text containing "sustainable" gives
\* ["sustainable technology"], a text containing neither gives
\* ["technology", "innovation"].
C5_KeywordSniffing ==
  \A i \in Invocations :
    ViaFreeText(i) =>
      LET low == Lower(SniffedText(inv[i].payload).s)
          ai == Contains(low, "artificial intelligence")
          sus == Contains(low, "sustainable")
          topics == inv[i].request.d.topics
      IN  /\ ai => topics = PyList(<<PyStr("artificial intelligence")>>)
          /\ (sus /\ ~ai) => topics = PyList(<<PyStr("sustainable technology")>>)
          /\ (~ai /\ ~sus) => topics = PyList(<<PyStr("technology"), PyStr("innovation")>>)

\* The fields of each assistant's request shape.
RequestFields(a) ==
  CASE a = QG -> {"summary", "goals", "existingKeywords", "domain"}
    [] a = CG -> {"topics", "platform"}
    [] a = CO -> {"content", "title", "meta", "topics"}
    [] a = DA -> {"domain"}

\* C6: for every payload that is a mapping, whatever its keys and the types
\* of their values, request adaptation completes without raising and gives
\* a Request with a value for every field of the request shape.
C6_AdaptTotalOnMappings ==
  \A i \in Invocations :
    (inv[i].payload.t = "dict" /\ inv[i].pc \notin {"idle", "entry"}) =>
      /\ inv[i].pc # "raised"
      /\ IF assistant = DA THEN inv[i].request # Absent
         ELSE /\ inv[i].request.t = "dict"
              /\ DOMAIN inv[i].request.d = RequestFields(assistant)

\* C7: for every mapping payload the adapted Request takes, field by field,
\* the payload's value for each canonical field the payload holds and the
\* assistant's default for each it lacks; a content-generation payload that
\* holds topics but lacks platform yields the payload's topics and the
\* default platform.
C7_FieldByField ==
  \A i \in Invocations :
    Adapted(i) =>
      LET p == inv[i].payload.d
          r == inv[i].request
      IN  CASE assistant = QG ->
                 /\ r.d.summary = Get(p, "summary", PyStr(""))
                 /\ r.d.goals = Get(p, "goals", PyStr(""))
                 /\ r.d.existingKeywords = Get(p, "existingKeywords", PyStr(""))
                 /\ r.d.domain = Get(p, "domain", PyStr("example.com"))
            [] assistant = CG ->
                 /\ "topics" \in DOMAIN p => r.d.topics = p.topics
                 /\ r.d.platform = Get(p, "platform", PyStr("reddit"))
            [] assistant = CO ->
                 /\ r.d.content = Get(p, "content", PyStr(""))
                 /\ r.d.title = Get(p, "title", PyStr(""))
                 /\ r.d.meta = Get(p, "meta", PyStr(""))
                 /\ r.d.topics = Get(p, "topics", PyList(<<>>))
            [] assistant = DA ->
                 r = Get(p, "domain", Get(p, "prompt", PyStr("example.com")))

\* The text of value v occurs in the prompt: a str verbatim, a list by each
\* of its elements, any other value by its str().
Appears(text, v) ==
  IF v.t = "list" THEN \A k \in 1..Len(v.l) : Contains(text, Str(v.l[k]))
  ELSE Contains(text, Str(v))

\* The topics of content optimization are joined item by item.
AppearsJoined(text, v) ==
  \A k \in 1..Len(Items(v)) : Contains(text, Items(v)[k].s)

\* C8: the prompt text main builds contains every field of the Request it
\* formats (string fields verbatim, list fields as a rendered list):
\* summary, goals, existingKeywords and domain for query generation; topics
\* and platform for content generation; title, meta, topics and content for
\* content optimization; domain for domain analysis.
C8_PromptHoldsEveryField ==
  \A i \in Invocations :
    inv[i].query # Absent =>
      LET text == inv[i].query.s
          r == MainArg(assistant, inv[i].request)
      IN  CASE assistant = QG ->
                 \A f \in RequestFields(QG) : Appears(text, r.d[f])
            [] assistant = CG ->
                 \A f \in RequestFields(CG) : Appears(text, r.d[f])
            [] assistant = CO ->
                 /\ \A f \in {"content", "title", "meta"} : Appears(text, r.d[f])
                 /\ AppearsJoined(text, r.d.topics)
            [] assistant = DA -> Appears(text, r)

C8_Witness ==
  \E i \in Invocations :
    /\ inv[i].pc = "await"
    /\ assistant = CO
    /\ inv[i].request.d.topics = PyList(<<PyStr("seo"), PyStr("solar")>>)
    /\ inv[i].request.d.title = PyStr("Vet tips")

\* C9: for content optimization every successful agent call yields an
\* envelope whose result is a bare string, the optimized content, never a
\* nested object.
C9_OptimizedResultIsString ==
  \A i \in Invocations :
    (assistant = CO /\ AgentSucceeded(i)) =>
      /\ SingleKeyResult(inv[i].ret)
      /\ inv[i].ret.val.d.result.t = "str"
      /\ inv[i].ret.val.d.result = inv[i].outcome.val.d.content

C9_Witness ==
  \E i \in Invocations :
    /\ assistant = CO
    /\ AgentSucceeded(i)
    /\ inv[i].ret.val.d.result = PyStr("## Intro")

\* C10: under any interleaving of concurrent invocations of one assistant,
\* what each invocation holds and returns is what it holds and returns when
\* run alone on its own payload with its own agent outcome, and the
\* module-level agent object is as constructed.
C10_InvocationsIndependent ==
  /\ agent = Agent(assistant)
  /\ \A i \in Invocations :
       LET a == assistant
           p == inv[i].payload
           r == Adapt(a, p)
       IN  /\ inv[i].pc = "raised" => (r.exc # "none" /\ inv[i].ret = r)
           /\ inv[i].pc \in {"main", "await", "done"} =>
                (r.exc = "none" /\ inv[i].request = r.val)
           /\ inv[i].pc = "await" =>
                inv[i].query = Query(a, MainArg(a, r.val)).val
           /\ inv[i].pc = "done" =>
                inv[i].ret = agent_invocation(a, p, inv[i].outcome)

C10_Witness ==
  /\ inv[1].pc = "await"
  /\ inv[2].pc = "done"
  /\ inv[1].payload # inv[2].payload
  /\ inv[2].outcome.val # Absent

\* C11: in every invocation the steps occur in the order adapt request,
\* synthesize prompt, call agent, return envelope: no prompt exists before
\* the request is adapted, the agent is called only with the prompt built,
\* an envelope is returned only after that; the agent is called at most
\* once per invocation, and after an agent failure the fallback envelope is
\* returned with no second call.
C11_StepOrderSingleCall ==
  \A i \in Invocations :
    /\ inv[i].calls <= 1
    /\ inv[i].pc \in {"idle", "entry", "raised"} =>
         (inv[i].request = Absent /\ inv[i].query = Absent /\ inv[i].calls = 0)
    /\ inv[i].pc = "main" =>
         (inv[i].request # Absent /\ inv[i].query = Absent /\ inv[i].calls = 0
          /\ inv[i].ret = NotReturned)
    /\ inv[i].pc = "await" =>
         (inv[i].request # Absent /\ inv[i].query # Absent /\ inv[i].calls = 1
          /\ inv[i].outcome = NotReturned /\ inv[i].ret = NotReturned)
    /\ inv[i].query # Absent => inv[i].request # Absent
    /\ inv[i].calls > 0 => inv[i].query # Absent
    /\ inv[i].outcome # NotReturned => (inv[i].calls = 1 /\ Returned(i))
    /\ Returned(i) => (inv[i].request # Absent /\ inv[i].ret.val # Absent)
    /\ AgentFailed(i) => (inv[i].calls = 1 /\ inv[i].ret = Ok(Fallback(assistant)))

C11_Witness ==
  \E i \in Invocations :
    /\ AgentFailed(i)
    /\ assistant = QG
    /\ inv[i].calls = 1
    /\ inv[i].outcome.exc = "ModelBehaviorError"

\* The domain the domain-analysis prompt names: the text between the fixed
\* opening of the query and the end of its first line.
DomainLine(d) == "Please analyze the domain: " \o d \o "\n\nUse web search"

PromptNamesDomain(i, d) ==
  SubSeq(inv[i].query.s, 1, Len(DomainLine(d))) = DomainLine(d)

DA_Prompted(i) == assistant = DA /\ inv[i].query # Absent

\* C12 as stated: in domain analysis the domain passed to the prompt is the
\* payload's domain key when present (also when a prompt key is present
\* too), otherwise the payload's prompt key when present, otherwise the
\* default "example.com".
C12_DomainPrecedence ==
  \A i \in Invocations :
    DA_Prompted(i) =>
      LET p == inv[i].payload.d
      IN  IF "domain" \in DOMAIN p THEN PromptNamesDomain(i, Str(p.domain))
          ELSE IF "prompt" \in DOMAIN p THEN PromptNamesDomain(i, Str(p.prompt))
          ELSE PromptNamesDomain(i, "example.com")

\* C12 as amended: the value is resolved by that precedence (domain key when
\* present, otherwise prompt key when present, otherwise "example.com"), and
\* a resolved value of None is replaced by "example.com" before the prompt
\* is built.
C12_DomainPrecedenceNoneDefault ==
  \A i \in Invocations :
    DA_Prompted(i) =>
      LET p == inv[i].payload.d
          v == IF "domain" \in DOMAIN p THEN p.domain
               ELSE IF "prompt" \in DOMAIN p THEN p.prompt
               ELSE PyStr("example.com")
      IN  IF v = PyNone THEN PromptNamesDomain(i, "example.com")
          ELSE PromptNamesDomain(i, Str(v))

C12_Witness ==
  \E i \in Invocations :
    /\ DA_Prompted(i)
    /\ inv[i].payload = MkDict([domain |-> PyStr("acme.io"), prompt |-> PyStr("shop.example")])
    /\ PromptNamesDomain(i, "acme.io")

\* Adaptation succeeded for invocation i of content optimization with a
\* topics value that cannot be joined: a sequence holding a non-string
\* element, or a value that is no sequence at all.
SynthesisFaults(i) ==
  /\ assistant = CO
  /\ inv[i].request # Absent
  /\ LET tp == inv[i].request.d.topics
     IN  \/ (tp.t # "list" /\ tp.t # "str")
         \/ (tp.t = "list" /\ \E k \in 1..Len(tp.l) : tp.l[k].t # "str")

\* C13: when adaptation succeeds but prompt synthesis faults (content
\* optimization: the topics value holds a non-string element, so joining it
\* fails), the invocation returns the assistant's static fallback envelope,
\* as for an agent failure, and the agent is never called in it.
C13_SynthesisFaultGivesFallback ==
  \A i \in Invocations :
    SynthesisFaults(i) =>
      /\ inv[i].pc \in {"main", "done"}
      /\ inv[i].calls = 0
      /\ inv[i].query = Absent
      /\ inv[i].outcome = NotReturned
      /\ Returned(i) =>
           /\ inv[i].ret = Ok(Fallback(assistant))
           /\ assistant = CO =>
                inv[i].ret.val.d = [result |->
                  PyStr("Error occurred during content optimization. Please try again.")]

C13_Witness ==
  \E i \in Invocations :
    /\ assistant = CO
    /\ Returned(i)
    /\ inv[i].request.d.topics = PyList(<<PyStr("seo"), PyInt(7)>>)
    /\ inv[i].calls = 0
====
